---------------------------- MODULE Spec2Model ----------------------------
(***************************************************************************)
(* axum-named-routes: NamedRouter (a builder that keeps a name -> path     *)
(* map beside a wrapped axum Router) and Routes (the frozen, Arc-shared    *)
(* map handed to request handlers).                                        *)
(*                                                                         *)
(* A path is the string a PathBuf stores, written as a sequence of         *)
(* one-character strings (<<"/", "a">> is "/a"), so that strip_prefix,     *)
(* join and the component-wise equality of std::path are computed and not  *)
(* assumed.  A name is a string; names are only ever concatenated.         *)
(***************************************************************************)
EXTENDS Integers, Sequences, FiniteSets, TLC

VARIABLES
    slots,      \* the NamedRouter held by each program variable
    panicked,   \* a builder call panicked (the wrapped router rejected it)
    op,         \* the kind of the last builder call
    tables,     \* the HashMap behind each Routes value (the Arc's pointee)
    handles,    \* each Routes handle: the table its Arc points to, 0 if unused
    last        \* the last lookup: its kind, handle, argument and result

vars == <<slots, panicked, op, tables, handles, last>>

-----------------------------------------------------------------------------
(* Bounds of the model *)

MaxEntries == 2
MaxPathLen == 4
MaxNameLen == 9

Slots == {"p", "q"}
TableIds == {1, 2}
Handles == {1, 2, 3}

-----------------------------------------------------------------------------
(* std::path on unix: PathBuf::from, strip_prefix, join, and ==            *)

Sep == "/"

HasRoot(p) == Len(p) > 0 /\ p[1] = Sep

RECURSIVE TrimLeft(_)
TrimLeft(p) == IF Len(p) > 0 /\ p[1] = Sep THEN TrimLeft(Tail(p)) ELSE p

RECURSIVE TrimRight(_)
TrimRight(p) ==
    IF Len(p) > 0 /\ p[Len(p)] = Sep THEN TrimRight(SubSeq(p, 1, Len(p) - 1)) ELSE p

\* The Normal components of p, in order: the maximal runs without a separator.
RECURSIVE Segments(_, _)
Segments(p, cur) ==
    IF p = <<>> THEN (IF cur = <<>> THEN <<>> ELSE <<cur>>)
    ELSE IF Head(p) = Sep
         THEN (IF cur = <<>> THEN <<>> ELSE <<cur>>) \o Segments(Tail(p), <<>>)
         ELSE Segments(Tail(p), Append(cur, Head(p)))

\* Path::components: RootDir (written <<"/">>) when rooted, then the Normal ones.
Components(p) == (IF HasRoot(p) THEN << <<Sep>> >> ELSE <<>>) \o Segments(p, <<>>)

\* PartialEq for Path / PathBuf compares components, so "/a/" == "/a".
PathEq(p, q) == Components(p) = Components(q)

\* inner_path.strip_prefix("/"): Err when not rooted, else the rest as a path.
StripPrefixOk(p) == HasRoot(p)
StripPrefix(p) == TrimRight(TrimLeft(Tail(p)))

\* path.join(rel): PathBuf::push on a copy of path.
Join(base, rel) ==
    IF HasRoot(rel) THEN rel
    ELSE IF Len(base) > 0 /\ base[Len(base)] # Sep THEN base \o <<Sep>> \o rel
    ELSE base \o rel

-----------------------------------------------------------------------------
(* HashMap<String, PathBuf>: a function from names to paths, with the      *)
(* hasher's seed, which fixes the iteration order of a given key set.      *)

EmptyMap == [n \in {} |-> <<>>]

\* HashMap::insert: the new value replaces an old one under the same key.
MapInsert(m, k, v) == [n \in DOMAIN m \cup {k} |-> IF n = k THEN v ELSE m[n]]

\* HashMap::extend: every pair of other is inserted, replacing on equal keys.
MapExtend(m, other) ==
    [n \in DOMAIN m \cup DOMAIN other |-> IF n \in DOMAIN other THEN other[n] ELSE m[n]]

RECURSIVE SetToSeq(_)
SetToSeq(S) ==
    IF S = {} THEN <<>>
    ELSE LET e == CHOOSE e \in S : TRUE IN <<e>> \o SetToSeq(S \ {e})

Reverse(s) == [i \in 1..Len(s) |-> s[Len(s) + 1 - i]]

\* HashMap::iter: an order of the keys that depends on the RandomState seed.
IterOrder(m, seed) == IF seed = 0 THEN SetToSeq(DOMAIN m) ELSE Reverse(SetToSeq(DOMAIN m))

-----------------------------------------------------------------------------
(* The wrapped axum::Router, as far as paths go: the set of route paths.   *)

\* axum rejects a route path that is empty or does not start with "/".
InnerPathOk(path) == HasRoot(path)

\* Router::route panics on a path that already has a route.
InnerRouteOk(inner, path) == InnerPathOk(path) /\ path \notin inner
InnerRoute(inner, path) == inner \cup {path}

\* Router::merge adds each route of other, panicking on an overlap.
InnerMergeOk(inner, other) == inner \cap other = {}
InnerMerge(inner, other) == inner \cup other

\* The path of a nested route: prefix and inner path glued with one "/".
PathForNestedRoute(prefix, path) ==
    IF prefix[Len(prefix)] = Sep THEN TrimRight(prefix) \o path
    ELSE IF path = <<Sep>> THEN prefix
    ELSE prefix \o path

InnerNested(prefix, other) == {PathForNestedRoute(prefix, p) : p \in other}

\* Router::nest adds each route of other under the prefix, panicking on an overlap.
InnerNestOk(inner, prefix, other) ==
    /\ InnerPathOk(prefix)
    /\ inner \cap InnerNested(prefix, other) = {}
    /\ Cardinality(InnerNested(prefix, other)) = Cardinality(other)
InnerNest(inner, prefix, other) == inner \cup InnerNested(prefix, other)

-----------------------------------------------------------------------------
(* NamedRouter *)

\* A program variable that holds no router (not yet bound, or moved out of).
Moved == [live |-> FALSE, inner |-> {}, routes |-> EmptyMap, nest_sep |-> ".", seed |-> 0]

\* Default::default(): an empty router with the separator ".".
Default(seed) ==
    [live |-> TRUE, inner |-> {}, routes |-> EmptyMap, nest_sep |-> ".", seed |-> seed]

\* NamedRouter::with_separator
WithSeparator(sep, seed) == [Default(seed) EXCEPT !.nest_sep = sep]

\* What a lookup returns: tag is "Ref" (has), "Some" / "None" (get, find),
\* "Ok" / "Err" (get_or, get_or_else) or "Panic"; the other fields hold the
\* path, name or error value the tag carries.
NoRes == [tag |-> "none", path |-> <<>>, name |-> "", err |-> ""]

NoLookup == [kind |-> "none", h |-> 0, name |-> "", path |-> <<>>, err |-> "", res |-> NoRes]

NoTable == [live |-> FALSE, map |-> EmptyMap, seed |-> 0]

Init ==
    /\ slots = [s \in Slots |-> Moved]
    /\ panicked = FALSE
    /\ op = "none"
    /\ tables = [t \in TableIds |-> NoTable]
    /\ handles = [h \in Handles |-> 0]
    /\ last = NoLookup

\* The sizes the model explores.
Fits(r) ==
    /\ Cardinality(DOMAIN r.routes) <= MaxEntries
    /\ \A n \in DOMAIN r.routes : Len(n) <= MaxNameLen /\ Len(r.routes[n]) <= MaxPathLen
    /\ \A p \in r.inner : Len(p) <= MaxPathLen
    /\ Cardinality(r.inner) <= MaxEntries

Building == ~panicked /\ \A t \in TableIds : ~tables[t].live

\* A builder call that panics unwinds the building code: self, moved into the
\* call, and every other router variable in scope are dropped.
Panic(kind) ==
    /\ panicked' = TRUE
    /\ op' = kind
    /\ slots' = [s \in Slots |-> Moved]

\* let s = NamedRouter::new()
New(s, seed) ==
    /\ Building
    /\ ~slots[s].live
    /\ slots' = [slots EXCEPT ![s] = Default(seed)]
    /\ op' = "new"
    /\ UNCHANGED <<panicked, tables, handles, last>>

\* let s = NamedRouter::with_separator(sep)
NewWithSeparator(s, sep, seed) ==
    /\ Building
    /\ ~slots[s].live
    /\ slots' = [slots EXCEPT ![s] = WithSeparator(sep, seed)]
    /\ op' = "with_separator"
    /\ UNCHANGED <<panicked, tables, handles, last>>

\* NamedRouter::set_separator
SetSeparator(s, sep) ==
    /\ Building
    /\ slots[s].live
    /\ slots' = [slots EXCEPT ![s].nest_sep = sep]
    /\ op' = "set_separator"
    /\ UNCHANGED <<panicked, tables, handles, last>>

\* The router route and route_service leave: the wrapped router gets the
\* path, then the map gets name -> PathBuf::from(path).
RouteResult(r, name, path) ==
    [r EXCEPT !.inner = InnerRoute(r.inner, path),
              !.routes = MapInsert(r.routes, name, path)]

\* NamedRouter::route
Route(s, name, path) ==
    /\ Building
    /\ slots[s].live
    /\ IF InnerRouteOk(slots[s].inner, path)
       THEN LET result == RouteResult(slots[s], name, path) IN
            /\ Fits(result)
            /\ slots' = [slots EXCEPT ![s] = result]
            /\ op' = "route"
            /\ UNCHANGED panicked
       ELSE Panic("route")
    /\ UNCHANGED <<tables, handles, last>>

\* NamedRouter::route_service
RouteService(s, name, path) ==
    /\ Building
    /\ slots[s].live
    /\ IF InnerRouteOk(slots[s].inner, path)
       THEN LET result == RouteResult(slots[s], name, path) IN
            /\ Fits(result)
            /\ slots' = [slots EXCEPT ![s] = result]
            /\ op' = "route_service"
            /\ UNCHANGED panicked
       ELSE Panic("route_service")
    /\ UNCHANGED <<tables, handles, last>>

\* merge without line 191: the wrapped routers merged, the map left alone.
MergeResultNoExtend(r, other) == [r EXCEPT !.inner = InnerMerge(r.inner, other.inner)]

\* The router merge leaves: both wrapped routers merged, the map extended.
MergeResult(r, other) ==
    [r EXCEPT !.inner = InnerMerge(r.inner, other.inner),
              !.routes = MapExtend(r.routes, other.routes)]

\* What becomes of the operand variable: kept when a clone was passed.
AfterUse(s, src, byClone) == IF byClone THEN slots[src] ELSE Moved

\* NamedRouter::merge, called as dst.merge(src) or dst.merge(src.clone()).
Merge(dst, src, byClone) ==
    /\ Building
    /\ dst # src
    /\ slots[dst].live /\ slots[src].live
    /\ IF InnerMergeOk(slots[dst].inner, slots[src].inner)
       THEN LET result == MergeResult(slots[dst], slots[src]) IN
            /\ Fits(result)
            /\ slots' = [slots EXCEPT ![dst] = result,
                                      ![src] = AfterUse(dst, src, byClone)]
            /\ op' = "merge"
            /\ UNCHANGED panicked
       ELSE Panic("merge")
    /\ UNCHANGED <<tables, handles, last>>

\* The closure of nest: one entry of router.routes, renamed and re-based.
PrefixedName(name, sep, inner_name) == name \o sep \o inner_name
PrefixedPath(path, inner_path) == Join(path, StripPrefix(inner_path))

\* router.routes.into_iter().map(..): the renamed entries of the sub-router.
PrefixedRoutes(name, sep, path, routes) ==
    LET composed == {PrefixedName(name, sep, n) : n \in DOMAIN routes}
        origin(c) == CHOOSE n \in DOMAIN routes : PrefixedName(name, sep, n) = c
    IN [c \in composed |-> PrefixedPath(path, routes[origin(c)])]

\* nest naming the entries with the nested router's separator instead of self's.
NestResultSubSep(r, name, path, router) ==
    [r EXCEPT !.inner = InnerNest(r.inner, path, router.inner),
              !.routes = MapExtend(r.routes,
                                   PrefixedRoutes(name, router.nest_sep, path, router.routes))]

\* The router nest leaves: the wrapped routers nested, the map extended with
\* the prefixed entries, named with self's separator.
NestResult(r, name, path, router) ==
    [r EXCEPT !.inner = InnerNest(r.inner, path, router.inner),
              !.routes = MapExtend(r.routes,
                                   PrefixedRoutes(name, r.nest_sep, path, router.routes))]

\* nest without line 232: the wrapped router is never asked, only unwrap panics.
NestPanicsUnwrapOnly(r, path, router) ==
    \E n \in DOMAIN router.routes : ~StripPrefixOk(router.routes[n])

\* Whether nest panics: the wrapped router's nest runs first and may reject
\* the call; then strip_prefix("/").unwrap() panics on an unrooted entry.
NestPanics(r, path, router) ==
    \/ ~InnerNestOk(r.inner, path, router.inner)
    \/ \E n \in DOMAIN router.routes : ~StripPrefixOk(router.routes[n])

\* NamedRouter::nest, called as dst.nest(name, path, src) or with src.clone().
Nest(dst, name, path, src, byClone) ==
    /\ Building
    /\ dst # src
    /\ slots[dst].live /\ slots[src].live
    /\ IF ~NestPanics(slots[dst], path, slots[src])
       THEN LET result == NestResult(slots[dst], name, path, slots[src]) IN
            /\ Fits(result)
            /\ slots' = [slots EXCEPT ![dst] = result,
                                      ![src] = AfterUse(dst, src, byClone)]
            /\ op' = "nest"
            /\ UNCHANGED panicked
       ELSE Panic("nest")
    /\ UNCHANGED <<tables, handles, last>>

-----------------------------------------------------------------------------
(* Building routers with the default separator: route, merge and nest on   *)
(* two router variables, each call with the operand moved or cloned.       *)

RouteNames == {"route_a", "route_b"}
NestNames == {"a", "b"}
RoutePaths == {<<"/">>, <<"/", "a">>, <<"a">>}
NestPaths == {<<"/">>, <<"/", "b">>}

NextBuild ==
    \/ \E s \in Slots : New(s, 0)
    \/ \E s \in Slots, n \in RouteNames, p \in RoutePaths : Route(s, n, p)
    \/ \E s \in Slots, n \in RouteNames, p \in RoutePaths : RouteService(s, n, p)
    \/ \E d, s \in Slots, c \in BOOLEAN : Merge(d, s, c)
    \/ \E d, s \in Slots, n \in NestNames, p \in NestPaths, c \in BOOLEAN : Nest(d, n, p, s, c)

Spec == Init /\ [][NextBuild]_vars

-----------------------------------------------------------------------------
(* Nesting with configured separators: sub-routers are built in "q" and    *)
(* nested, moved or cloned, into a parent that may be nested in turn.      *)

Separators == {".", "-"}
SubRoutePaths == {<<"/">>, <<"/", "a">>, <<"/", "a", "/">>}
NestCalls == {<<"a", <<"/">> >>, <<"b", <<"/", "b">> >>, <<"b", <<"/", "b", "/">> >>}

NextNest ==
    \/ New("q", 0)
    \/ \E sep \in Separators : NewWithSeparator("p", sep, 0)
    \/ \E sep \in Separators : SetSeparator("p", sep)
    \/ \E n \in RouteNames, p \in SubRoutePaths : Route("q", n, p)
    \/ \E call \in NestCalls, c \in BOOLEAN : Nest("p", call[1], call[2], "q", c)

SpecNest == Init /\ [][NextNest]_vars

-----------------------------------------------------------------------------
(* Routes: the finalized table, its handles and its lookups *)

\* Routes::new on a fresh map instead of the router's.
RoutesNewEmpty(map, seed) == [live |-> TRUE, map |-> EmptyMap, seed |-> seed]

\* Routes::new: the map moves into a fresh Arc, hasher and layout included.
RoutesNew(map, seed) == [live |-> TRUE, map |-> map, seed |-> seed]

FreeHandles == {h \in Handles : handles[h] = 0}
NextHandle == CHOOSE h \in FreeHandles : \A g \in FreeHandles : h <= g

\* NamedRouter::into_router: self is consumed and its map becomes the Routes
\* value the Extension layer holds (the first handle to table t).
IntoRouter(s, t) ==
    /\ ~panicked
    /\ slots[s].live
    /\ ~tables[t].live
    /\ FreeHandles # {}
    /\ tables' = [tables EXCEPT ![t] = RoutesNew(slots[s].routes, slots[s].seed)]
    /\ handles' = [handles EXCEPT ![NextHandle] = t]
    /\ slots' = [slots EXCEPT ![s] = Moved]
    /\ op' = "into_router"
    /\ UNCHANGED <<panicked, last>>

\* Routes::clone (derived), as from_request_parts does for each request: a
\* new handle to the same Arc.
CloneHandle(h) ==
    /\ handles[h] # 0
    /\ FreeHandles # {}
    /\ handles' = [handles EXCEPT ![NextHandle] = handles[h]]
    /\ UNCHANGED <<slots, panicked, op, tables, last>>

\* Routes::has
Has(map, name) ==
    IF name \in DOMAIN map THEN [NoRes EXCEPT !.tag = "Ref", !.path = map[name]]
    ELSE [NoRes EXCEPT !.tag = "Panic"]

\* get written with an unwrap: a missing name panics.
GetUnwrap(map, name) ==
    IF name \in DOMAIN map THEN [NoRes EXCEPT !.tag = "Some", !.path = map[name]]
    ELSE [NoRes EXCEPT !.tag = "Panic"]

\* Routes::get
Get(map, name) ==
    IF name \in DOMAIN map THEN [NoRes EXCEPT !.tag = "Some", !.path = map[name]]
    ELSE [NoRes EXCEPT !.tag = "None"]

\* Routes::get_or: Option::ok_or(err)
GetOr(map, name, err) ==
    IF name \in DOMAIN map THEN [NoRes EXCEPT !.tag = "Ok", !.path = map[name]]
    ELSE [NoRes EXCEPT !.tag = "Err", !.err = err]

\* What the caller's closure f returns when called.
CallFn(f) == f \o "()"

\* Routes::get_or_else: Option::ok_or_else(f)
GetOrElse(map, name, f) ==
    IF name \in DOMAIN map THEN [NoRes EXCEPT !.tag = "Ok", !.path = map[name]]
    ELSE [NoRes EXCEPT !.tag = "Err", !.err = CallFn(f)]

\* find comparing the stored strings instead of the paths' components.
RECURSIVE FindFromExact(_, _, _)
FindFromExact(map, order, path) ==
    IF order = <<>> THEN [NoRes EXCEPT !.tag = "None"]
    ELSE IF map[Head(order)] = path
         THEN [NoRes EXCEPT !.tag = "Some", !.name = Head(order)]
         ELSE FindFromExact(map, Tail(order), path)

\* The loop of Routes::find over the keys in iteration order.
RECURSIVE FindFrom(_, _, _)
FindFrom(map, order, path) ==
    IF order = <<>> THEN [NoRes EXCEPT !.tag = "None"]
    ELSE IF PathEq(map[Head(order)], path)
         THEN [NoRes EXCEPT !.tag = "Some", !.name = Head(order)]
         ELSE FindFrom(map, Tail(order), path)

\* Routes::find
Find(table, path) == FindFrom(table.map, IterOrder(table.map, table.seed), path)

\* A handler holding handle h calls one of the lookups.
Lookup(kind, h, name, path, err, res) ==
    /\ handles[h] # 0
    /\ last' = [kind |-> kind, h |-> h, name |-> name, path |-> path, err |-> err,
                res |-> res]
    /\ UNCHANGED <<slots, panicked, op, tables, handles>>

TableOf(h) == tables[handles[h]]

CallHas(h, name) == Lookup("has", h, name, <<>>, "", Has(TableOf(h).map, name))
CallGet(h, name) == Lookup("get", h, name, <<>>, "", Get(TableOf(h).map, name))
CallGetOr(h, name, err) ==
    Lookup("get_or", h, name, <<>>, err, GetOr(TableOf(h).map, name, err))
CallGetOrElse(h, name, f) ==
    Lookup("get_or_else", h, name, <<>>, f, GetOrElse(TableOf(h).map, name, f))
CallFind(h, path) == Lookup("find", h, "", path, "", Find(TableOf(h), path))

-----------------------------------------------------------------------------
(* Building, finalizing and serving: two routers, whose maps hash with     *)
(* different seeds, are built, then turned into tables, and the tables are *)
(* read through handles.                                                   *)

TableRoutePaths == {<<"/", "a">>, <<"/", "a", "/">>}
LookupNames == {"route_a", "a.route_a", "missing"}
LookupPaths == {<<"/", "a">>, <<"/", "a", "/">>, <<"/", "b", "/", "a">>, <<"/", "c">>}
Errors == {"not_found"}
ErrorFns == {"mk_error"}

NextTable ==
    \/ New("p", 0)
    \/ New("q", 1)
    \/ \E s \in Slots, n \in RouteNames, p \in TableRoutePaths : Route(s, n, p)
    \/ \E c \in BOOLEAN : Nest("p", "a", <<"/", "b">>, "q", c)
    \/ IntoRouter("p", 1)
    \/ IntoRouter("q", 2)
    \/ \E h \in Handles : CloneHandle(h)
    \/ \E h \in Handles, n \in LookupNames : CallHas(h, n)
    \/ \E h \in Handles, n \in LookupNames : CallGet(h, n)
    \/ \E h \in Handles, n \in LookupNames, e \in Errors : CallGetOr(h, n, e)
    \/ \E h \in Handles, n \in LookupNames, f \in ErrorFns : CallGetOrElse(h, n, f)
    \/ \E h \in Handles, p \in LookupPaths : CallFind(h, p)

SpecTable == Init /\ [][NextTable]_vars

-----------------------------------------------------------------------------
(* Properties *)

\* The segments of a rooted path, its root marker left out.
Relative(p) == Tail(Components(p))

\* What nest(name, path, sub) must leave in the parent's map.
NestPost(self, name, path, sub, after) ==
    LET composed == {name \o self.nest_sep \o n : n \in DOMAIN sub.routes} IN
    /\ DOMAIN after.routes = DOMAIN self.routes \cup composed
    /\ \A n \in DOMAIN sub.routes :
          Components(after.routes[name \o self.nest_sep \o n])
              = Components(path) \o Relative(sub.routes[n])
    /\ \A n \in DOMAIN self.routes \ composed : after.routes[n] = self.routes[n]

\* The worked cases: route_a -> /a under "b" at "/b" is /b/a, under "a" at "/" is /a.
NestExamples(self, name, path, sub, after) ==
    ("route_a" \in DOMAIN sub.routes /\ sub.routes["route_a"] = <<"/", "a">>) =>
        /\ (name = "b" /\ path = <<"/", "b">>) =>
              after.routes["b" \o self.nest_sep \o "route_a"] = <<"/", "b", "/", "a">>
        /\ (name = "a" /\ path = <<"/">>) =>
              after.routes["a" \o self.nest_sep \o "route_a"] = <<"/", "a">>

\* C1: a nest that returns leaves, for every entry of the sub-router, the entry
\* name_prefix + parent's separator + inner_name -> path_prefix joined with the
\* inner path's segments, and leaves the parent's other entries as they were.
C1_NestPrefixesEntries ==
    [][(op' = "nest" /\ ~panicked') =>
        \A call \in NestCalls, c \in BOOLEAN :
            Nest("p", call[1], call[2], "q", c) =>
                /\ NestPost(slots["p"], call[1], call[2], slots["q"], slots'["p"])
                /\ NestExamples(slots["p"], call[1], call[2], slots["q"], slots'["p"])]_vars

\* C1 witness: a parent with separator "-" after nesting {route_a -> /a,
\* route_b -> /} under "b" at "/b".
C1_Witness ==
    /\ op = "nest" /\ ~panicked
    /\ slots["p"].nest_sep = "-"
    /\ DOMAIN slots["p"].routes = {"b-route_a", "b-route_b"}
    /\ slots["p"].routes["b-route_a"] = <<"/", "b", "/", "a">>
    /\ slots["p"].routes["b-route_b"] = <<"/", "b", "/">>

\* C2 (as claimed): registering a name the registry already holds is refused and
\* leaves the map as it was.
C2_DuplicateNameRejected ==
    [][(op' \in {"route", "route_service"} /\ ~panicked') =>
        \A s \in Slots, n \in RouteNames, p \in RoutePaths :
            ((Route(s, n, p) \/ RouteService(s, n, p)) /\ n \in DOMAIN slots[s].routes)
                => slots'[s].routes = slots[s].routes]_vars

\* C3 (as claimed): a merge or nest that brings a name the registry already holds
\* commits nothing: the map after the call is the map before it.
C3_CollisionIsAtomic ==
    [][(op' \in {"merge", "nest"} /\ ~panicked') =>
        \A d, s \in Slots, c \in BOOLEAN :
            /\ (DOMAIN slots[s].routes \cap DOMAIN slots[d].routes # {} /\ Merge(d, s, c))
                  => slots'[d].routes = slots[d].routes
            /\ \A n \in NestNames, p \in NestPaths :
                  (/\ \E i \in DOMAIN slots[s].routes :
                         (n \o slots[d].nest_sep \o i) \in DOMAIN slots[d].routes
                   /\ Nest(d, n, p, s, c))
                  => slots'[d].routes = slots[d].routes]_vars

\* What merge(other) must leave when the two name sets are disjoint.
MergePost(self, other, after) ==
    /\ DOMAIN after.routes = DOMAIN self.routes \cup DOMAIN other.routes
    /\ \A n \in DOMAIN self.routes : after.routes[n] = self.routes[n]
    /\ \A n \in DOMAIN other.routes : after.routes[n] = other.routes[n]

\* C4: merging registries with disjoint names yields their union, every name
\* keeping its path; a nest prefixes every entry of the router it is given,
\* whichever side of an earlier merge the entry came from.
C4_MergeIsUnion ==
    [][(op' \in {"merge", "nest"} /\ ~panicked') =>
        \A d, s \in Slots :
            (d # s /\ slots'[d].live) =>
                \A c \in BOOLEAN :
                    /\ (/\ op' = "merge"
                        /\ DOMAIN slots[s].routes \cap DOMAIN slots[d].routes = {}
                        /\ Merge(d, s, c))
                          => MergePost(slots[d], slots[s], slots'[d])
                    /\ op' = "nest" =>
                          \A n \in NestNames, p \in NestPaths :
                              Nest(d, n, p, s, c) =>
                                  \A i \in DOMAIN slots[s].routes :
                                      (n \o slots[d].nest_sep \o i) \in DOMAIN slots'[d].routes]_vars

\* C4 witness: "p" holds route_a and route_b right after q was merged into it.
C4_Witness ==
    /\ op = "merge" /\ ~panicked
    /\ ~slots["q"].live
    /\ DOMAIN slots["p"].routes = {"route_a", "route_b"}
    /\ slots["p"].inner = {<<"/">>, <<"/", "a">>}

C10_RegistryInSync ==
    \A s \in Slots :
        slots[s].live =>
            {Components(slots[s].routes[n]) : n \in DOMAIN slots[s].routes}
                = {Components(q) : q \in slots[s].inner}

\* The table a lookup went through.
LastMap == TableOf(last.h).map

\* C5: a present name yields its stored path from has, get, get_or and
\* get_or_else; an absent one yields None, the caller's error, the error the
\* caller's function makes, and a panic from has alone.
C5_LookupTotality ==
    /\ last.kind \in {"has", "get", "get_or", "get_or_else"} =>
          IF last.name \in DOMAIN LastMap
          THEN /\ last.res.path = LastMap[last.name]
               /\ last.res.tag = (CASE last.kind = "has" -> "Ref"
                                    [] last.kind = "get" -> "Some"
                                    [] OTHER -> "Ok")
          ELSE CASE last.kind = "has" -> last.res.tag = "Panic"
                 [] last.kind = "get" -> last.res.tag = "None"
                 [] last.kind = "get_or" ->
                        last.res.tag = "Err" /\ last.res.err = last.err
                 [] OTHER -> last.res.tag = "Err" /\ last.res.err = last.err \o "()"
    /\ last.res.tag = "Panic" => last.kind = "has"

\* C5 witness: has("a.route_a") returned the nested path /b/a.
C5_Witness ==
    /\ last.kind = "has" /\ last.name = "a.route_a"
    /\ last.res.tag = "Ref" /\ last.res.path = <<"/", "b", "/", "a">>

\* C6: into_router makes a table of exactly the router's entries; no step
\* changes a table or re-points a handle; two gets in a row for one name,
\* through any handles of one table, return the same result.
C6_ImmutableAfterFinalize ==
    [][/\ \A s \in Slots, t \in TableIds :
             IntoRouter(s, t) => tables'[t].map = slots[s].routes
       /\ \A t \in TableIds : tables[t].live => tables'[t] = tables[t]
       /\ \A h \in Handles : handles[h] # 0 => handles'[h] = handles[h]
       /\ (/\ last.kind = "get" /\ last'.kind = "get" /\ last'.name = last.name
           /\ handles'[last'.h] = handles[last.h])
          => last'.res = last.res]_vars

\* C6 witness: a get through a clone of the first handle of a table found
\* the entry the router held.
C6_Witness ==
    /\ handles[1] # 0 /\ handles[2] = handles[1]
    /\ last.kind = "get" /\ last.h = 2 /\ last.res.tag = "Some"

\* C7: find(p) returns a name only if that name's path is p, returns a name
\* whenever some entry's path is p, and returns None otherwise.
C7_ReverseLookup ==
    last.kind = "find" =>
        LET hits == {n \in DOMAIN LastMap : PathEq(LastMap[n], last.path)} IN
        /\ last.res.tag = "Some" => last.res.name \in hits
        /\ hits # {} => last.res.tag = "Some"
        /\ hits = {} => last.res.tag = "None"
        /\ (DOMAIN LastMap = {"route_a"} /\ LastMap["route_a"] = last.path)
              => last.res.name = "route_a"

\* C7 witness: find("/a/") on a table holding only route_a -> /a found route_a.
C7_Witness ==
    /\ last.kind = "find" /\ last.path = <<"/", "a", "/">>
    /\ DOMAIN LastMap = {"route_a"} /\ LastMap["route_a"] = <<"/", "a">>
    /\ last.res.tag = "Some" /\ last.res.name = "route_a"

\* C9 (as claimed): two tables holding the same entries answer find alike: a
\* find for a path, right after a find for the same path on a table with the
\* same entries, returns the same name.
C9_FindDeterministic ==
    [][(/\ last.kind = "find" /\ last'.kind = "find" /\ last'.path = last.path
        /\ TableOf(last.h).map = tables'[handles'[last'.h]].map)
       => last'.res = last.res]_vars

=============================================================================
